---- MODULE Spec2Model ----
(***************************************************************************)
(* Model of the euicc-go LPA convenience layer: notification processing,   *)
(* SM-DS discovery, discover-and-download, chip information, and the       *)
(* EUICCInfo2 / ExtCardResource decoders.                                  *)
(*                                                                         *)
(* Every blocking exchange with the eUICC or a server is one step of the   *)
(* caller that issues it.  Callers are goroutines using one lpa.Client.    *)
(***************************************************************************)
EXTENDS Integers, Sequences, FiniteSets, TLC

(* ------------------------------ bounds --------------------------------- *)
MaxSeq == 2          \* sequence numbers on the eUICC are 1..MaxSeq
MaxBatch == 2        \* longest sequenceNumbers argument
MaxDeliveries == 2   \* deliveries one server accepts per sequence number
MaxEvents == 2       \* longest event list one discovery returns
MaxInstalled == 1    \* profiles the eUICC has room for
MaxValueLen == 4     \* longest enumerated memory-resource value
MaxChildren == 2     \* most children of an enumerated EUICCInfo2 root
MaxCodecLen == 3     \* longest enumerated bit string, version or EID
MaxSegments == 2     \* most segments of one bound profile package

Procs == {1, 2}      \* goroutines sharing the client
SeqNums == 1..MaxSeq

\* the sequences over S of length at most n
SeqsUpTo(S, n) == UNION {[1..k -> S] : k \in 0..n}

(* ------------------------- program constants --------------------------- *)
DefaultSMDSAddress == "lpa.ds.gsma.com"

(* ------------------------------- state --------------------------------- *)
VARIABLES
    pc,         \* pc[p]: where goroutine p stands in its lifecycle call
    call,       \* call[p]: the call p is in, or the last one it made
    loc,        \* loc[p]: the locals of that call
    trace,      \* trace[p]: the exchanges the call has issued, in order
    ret,        \* ret[p]: what the last finished call returned
    pending,    \* eUICC: sequence numbers of the notifications it holds
    delivered,  \* SM-DP+: times each notification has been accepted
    installed,  \* eUICC: number of installed profiles
    ext,        \* the ExtCardResource / EUICCInfo2 decode in progress
    shared      \* TRUE when several goroutines use the client, one call each

vars == <<pc, call, loc, trace, ret, pending, delivered, installed, ext, shared>>
env == <<pending, delivered, installed>>

(* --------------------------- value shapes ------------------------------ *)
NoError == "nil"

\* one blocking exchange: i is the loop index it belongs to (0 outside loops)
Ex(name, i, seq, host, ok) ==
    [ex |-> name, i |-> i, seq |-> seq, host |-> host, ok |-> ok]

NilInfo == [isNil |-> TRUE, EID |-> <<>>, ConfiguredAddresses |-> "nil",
            Info2 |-> "nil", RulesAuthorisationTable |-> "nil"]

NoCall == [name |-> "none", optsNil |-> TRUE, AutoRemove |-> FALSE,
           ContinueOnError |-> FALSE, seqs |-> <<>>, SMDSAddress |-> ""]

NoLoc == [seqs |-> <<>>, idx |-> 0, results |-> <<>>, autoRemove |-> FALSE,
          continueOnError |-> FALSE, profiles |-> <<>>, host |-> "",
          stage |-> "Idle", info |-> NilInfo, eidBytes |-> <<>>,
          composed |-> FALSE, eventEntries |-> <<>>,
          ctxDone |-> FALSE, segments |-> 0, segment |-> 0]

\* a return value; the fields a function does not return stay nil
NoRet == [done |-> FALSE, err |-> NoError,
          results |-> <<>>, resultsNil |-> TRUE,
          profiles |-> <<>>, profilesNil |-> TRUE,
          response |-> "nil", info |-> NilInfo]

(* ---------------------- step bookkeeping helpers ----------------------- *)
Goto(p, where, newloc, e) ==
    /\ pc' = [pc EXCEPT ![p] = where]
    /\ loc' = [loc EXCEPT ![p] = newloc]
    /\ trace' = [trace EXCEPT ![p] = IF e = <<>> THEN @ ELSE @ \o e]
    /\ UNCHANGED <<call, ret>>

Return(p, newloc, e, value) ==
    /\ pc' = [pc EXCEPT ![p] = "idle"]
    /\ loc' = [loc EXCEPT ![p] = newloc]
    /\ trace' = [trace EXCEPT ![p] = IF e = <<>> THEN @ ELSE @ \o e]
    /\ ret' = [ret EXCEPT ![p] = [value EXCEPT !.done = TRUE]]
    /\ UNCHANGED call

\* p may issue a call
Idle(p) == pc[p] = "idle" /\ call[p].name = "none"

\* the caller has taken the return value; the locals of the call are gone
Consume(p) ==
    /\ pc[p] = "idle" /\ call[p].name # "none"
    /\ call' = [call EXCEPT ![p] = NoCall]
    /\ loc' = [loc EXCEPT ![p] = NoLoc]
    /\ trace' = [trace EXCEPT ![p] = <<>>]
    /\ ret' = [ret EXCEPT ![p] = NoRet]
    /\ UNCHANGED <<pc, pending, delivered, installed, ext, shared>>

\* the arguments tried: shorter ones when the client is shared
BatchLimit == IF shared THEN 1 ELSE MaxBatch
EventLimit == IF shared THEN 1 ELSE MaxEvents
SegmentLimit == IF shared THEN 1 ELSE MaxSegments

Begin(p, c, where, newloc) ==
    /\ pc' = [pc EXCEPT ![p] = where]
    /\ call' = [call EXCEPT ![p] = c]
    /\ loc' = [loc EXCEPT ![p] = newloc]
    /\ trace' = [trace EXCEPT ![p] = <<>>]
    /\ ret' = [ret EXCEPT ![p] = NoRet]

(* ===================== notification processing ========================= *)
\* ProcessNotificationsOptions, and the nil options pointer
PNOptions ==
    [optsNil : {FALSE}, AutoRemove : BOOLEAN, ContinueOnError : BOOLEAN]
    \cup {[optsNil |-> TRUE, AutoRemove |-> FALSE, ContinueOnError |-> FALSE]}

\* opts == nil is replaced by the zero options
EffectiveOptions(o) ==
    IF o.optsNil THEN [AutoRemove |-> FALSE, ContinueOnError |-> FALSE]
    ELSE [AutoRemove |-> o.AutoRemove, ContinueOnError |-> o.ContinueOnError]

\* NotificationResult with Success set before the error is looked at
NotificationResultAlwaysSuccess(seqNum, removed, err) ==
    [SequenceNumber |-> seqNum, Success |-> TRUE,
     Error |-> err, Removed |-> removed]

\* the result ProcessNotifications appends for one sequence number
NotificationResult(seqNum, removed, err) ==
    [SequenceNumber |-> seqNum, Success |-> (err = NoError),
     Error |-> err, Removed |-> removed]

\* LoopNext with the ContinueOnError test dropped: the loop stops at any failure
LoopNextStopsAlways(continueOnError, err, i, n) ==
    IF err # NoError THEN "return_error"
    ELSE IF i < n THEN "next"
    ELSE "return_ok"

\* the loop's decision after one sequence number was processed
LoopNext(continueOnError, err, i, n) ==
    IF err # NoError /\ ~continueOnError THEN "return_error"
    ELSE IF i < n THEN "next"
    ELSE "return_ok"

\* NextIndex going round again on the sequence number that failed
NextIndexRetriesFailed(i, err) == IF err # NoError THEN i ELSE i + 1

\* the range loop moves to the next sequence number, whatever the outcome
NextIndex(i, err) == i + 1

\* AfterRetrieve without the test for an empty list
AfterRetrieveIgnoresEmpty(ok, notifications) ==
    IF ~ok THEN "retrieve notification" ELSE NoError

\* processSingleNotification after RetrieveNotificationList returned
AfterRetrieve(ok, notifications) ==
    IF ~ok THEN "retrieve notification"
    ELSE IF Len(notifications) = 0 THEN "notification not found"
    ELSE NoError

\* AfterHandle with the error check after the AutoRemove test
AfterHandleRemovesFirst(ok, autoRemove) ==
    IF autoRemove THEN "remove"
    ELSE IF ~ok THEN "fail"
    ELSE "done"

\* processSingleNotification after HandleNotification returned
AfterHandle(ok, autoRemove) ==
    IF ~ok THEN "fail"
    ELSE IF autoRemove THEN "remove"
    ELSE "done"

\* AfterRemove reporting the removal as done whatever the eUICC answered
AfterRemoveReportsRemoved(ok) ==
    IF ~ok THEN [removed |-> TRUE, err |-> "remove notification"]
    ELSE [removed |-> TRUE, err |-> NoError]

\* processSingleNotification after RemoveNotificationFromList returned
AfterRemove(ok) ==
    IF ~ok THEN [removed |-> FALSE, err |-> "remove notification"]
    ELSE [removed |-> TRUE, err |-> NoError]

\* what RetrieveNotificationList(seqNum) finds on the eUICC
RetrieveNotificationList(seqNum) ==
    IF seqNum \in pending THEN <<seqNum>> ELSE <<>>

RECURSIVE SortedSeq(_)
SortedSeq(S) ==
    IF S = {} THEN <<>>
    ELSE LET m == CHOOSE x \in S : \A y \in S : x <= y IN
         <<m>> \o SortedSeq(S \ {m})

\* what ListNotification finds on the eUICC
ListNotification == SortedSeq(pending)

\* processSingleNotification returned (removed, err): the rest of the loop body
FinishSingle(p, e, removed, err) ==
    LET l == loc[p]
        seqNum == l.seqs[l.idx]
        results == Append(l.results, NotificationResult(seqNum, removed, err))
        next == LoopNext(l.continueOnError, err, l.idx, Len(l.seqs))
    IN  IF next = "return_error"
        THEN Return(p, [l EXCEPT !.results = results], e,
                    [NoRet EXCEPT !.results = results, !.resultsNil = FALSE,
                                  !.err = "failed to process notification"])
        ELSE IF next = "next"
        THEN Goto(p, "pn_retrieve",
                  [l EXCEPT !.results = results, !.idx = NextIndex(l.idx, err)], e)
        ELSE Return(p, [l EXCEPT !.results = results], e,
                    [NoRet EXCEPT !.results = results, !.resultsNil = FALSE])

\* ProcessNotifications returning an empty list for no sequence numbers
ProcessNotificationsEmptyList(p) ==
    /\ Idle(p)
    /\ \E o \in PNOptions, s \in SeqsUpTo(SeqNums, BatchLimit) :
         LET opts == EffectiveOptions(o)
             c == [NoCall EXCEPT !.name = "ProcessNotifications",
                                 !.optsNil = o.optsNil,
                                 !.AutoRemove = opts.AutoRemove,
                                 !.ContinueOnError = opts.ContinueOnError,
                                 !.seqs = s]
             l == [NoLoc EXCEPT !.seqs = s, !.idx = 1,
                                !.autoRemove = opts.AutoRemove,
                                !.continueOnError = opts.ContinueOnError]
         IN  IF Len(s) = 0
             THEN /\ pc' = pc
                  /\ call' = [call EXCEPT ![p] = c]
                  /\ loc' = [loc EXCEPT ![p] = [l EXCEPT !.idx = 0]]
                  /\ trace' = [trace EXCEPT ![p] = <<>>]
                  /\ ret' = [ret EXCEPT ![p] = [NoRet EXCEPT !.done = TRUE,
                                                             !.resultsNil = FALSE]]
             ELSE Begin(p, c, "pn_retrieve", l)
    /\ UNCHANGED <<env, ext, shared>>

\* ProcessNotifications up to its loop
ProcessNotifications(p) ==
    /\ Idle(p)
    /\ \E o \in PNOptions, s \in SeqsUpTo(SeqNums, BatchLimit) :
         LET opts == EffectiveOptions(o)
             c == [NoCall EXCEPT !.name = "ProcessNotifications",
                                 !.optsNil = o.optsNil,
                                 !.AutoRemove = opts.AutoRemove,
                                 !.ContinueOnError = opts.ContinueOnError,
                                 !.seqs = s]
             l == [NoLoc EXCEPT !.seqs = s, !.idx = 1,
                                !.autoRemove = opts.AutoRemove,
                                !.continueOnError = opts.ContinueOnError]
         IN  IF Len(s) = 0
             THEN /\ pc' = pc
                  /\ call' = [call EXCEPT ![p] = c]
                  /\ loc' = [loc EXCEPT ![p] = [l EXCEPT !.idx = 0]]
                  /\ trace' = [trace EXCEPT ![p] = <<>>]
                  /\ ret' = [ret EXCEPT ![p] = [NoRet EXCEPT !.done = TRUE]]
             ELSE Begin(p, c, "pn_retrieve", l)
    /\ UNCHANGED <<env, ext, shared>>

\* ProcessAllNotifications up to its ListNotification exchange
ProcessAllNotifications(p) ==
    /\ Idle(p)
    /\ \E o \in PNOptions :
         LET opts == EffectiveOptions(o) IN
         Begin(p, [NoCall EXCEPT !.name = "ProcessAllNotifications",
                                 !.optsNil = o.optsNil,
                                 !.AutoRemove = opts.AutoRemove,
                                 !.ContinueOnError = opts.ContinueOnError],
               "pa_list",
               [NoLoc EXCEPT !.autoRemove = opts.AutoRemove,
                             !.continueOnError = opts.ContinueOnError])
    /\ UNCHANGED <<env, ext, shared>>

\* ListStep going on to process after a listing that failed
ListStepIgnoresError(p) ==
    /\ pc[p] = "pa_list"
    /\ \E ok \in BOOLEAN :
         LET e == <<Ex("ListNotification", 0, 0, "", ok)>>
             notifications == ListNotification
         IN  IF Len(notifications) = 0
             THEN Return(p, loc[p], e, NoRet)
             ELSE Goto(p, "pn_retrieve",
                       [loc[p] EXCEPT !.seqs = notifications, !.idx = 1], e)
    /\ UNCHANGED <<env, ext, shared>>

\* ProcessAllNotifications: ListNotification, then ProcessNotifications
ListStep(p) ==
    /\ pc[p] = "pa_list"
    /\ \E ok \in BOOLEAN :
         LET e == <<Ex("ListNotification", 0, 0, "", ok)>>
             notifications == ListNotification
         IN  IF ~ok
             THEN Return(p, loc[p], e,
                         [NoRet EXCEPT !.err = "failed to list notifications"])
             ELSE IF Len(notifications) = 0
             THEN Return(p, loc[p], e, NoRet)
             ELSE Goto(p, "pn_retrieve",
                       [loc[p] EXCEPT !.seqs = notifications, !.idx = 1], e)
    /\ UNCHANGED <<env, ext, shared>>

\* processSingleNotification step 1: retrieve the notification's content
RetrieveStep(p) ==
    /\ pc[p] = "pn_retrieve"
    /\ \E ok \in BOOLEAN :
         LET l == loc[p]
             seqNum == l.seqs[l.idx]
             e == <<Ex("RetrieveNotificationList", l.idx, seqNum, "", ok)>>
             err == AfterRetrieve(ok, RetrieveNotificationList(seqNum))
         IN  IF err # NoError THEN FinishSingle(p, e, FALSE, err)
             ELSE Goto(p, "pn_deliver", l, e)
    /\ UNCHANGED <<env, ext, shared>>

\* processSingleNotification step 2: send the notification to its SM-DP+
HandleStep(p) ==
    /\ pc[p] = "pn_deliver"
    /\ \E ok \in BOOLEAN :
         LET l == loc[p]
             seqNum == l.seqs[l.idx]
             e == <<Ex("HandleNotification", l.idx, seqNum, "", ok)>>
             next == AfterHandle(ok, l.autoRemove)
         IN  /\ ok => delivered[seqNum] < MaxDeliveries
             /\ delivered' = IF ok THEN [delivered EXCEPT ![seqNum] = @ + 1]
                             ELSE delivered
             /\ IF next = "fail" THEN FinishSingle(p, e, FALSE, "handle notification")
                ELSE IF next = "remove" THEN Goto(p, "pn_remove", l, e)
                ELSE FinishSingle(p, e, FALSE, NoError)
    /\ UNCHANGED <<pending, installed, ext, shared>>

\* processSingleNotification step 3: remove the notification from the eUICC
RemoveStep(p) ==
    /\ pc[p] = "pn_remove"
    /\ \E ok \in BOOLEAN :
         LET l == loc[p]
             seqNum == l.seqs[l.idx]
             e == <<Ex("RemoveNotificationFromList", l.idx, seqNum, "", ok)>>
             r == AfterRemove(ok)
         IN  /\ pending' = IF ok THEN pending \ {seqNum} ELSE pending
             /\ FinishSingle(p, e, r.removed, r.err)
    /\ UNCHANGED <<delivered, installed, ext, shared>>

(* ============================ discovery ================================ *)
EventIDs == {"ev1", "ev2"}
Addresses == {"smdp-a.example", "smdp-b.example"}

\* EventEntry values one Discovery may return
EventEntries == [EventID : EventIDs, Address : Addresses]

\* DiscoverProfilesOptions, and the nil options pointer
DiscoverOptions ==
    [optsNil : {FALSE}, SMDSAddress : {"", "prod.smds.rsp.goog"}]
    \cup {[optsNil |-> TRUE, SMDSAddress |-> ""]}

\* the SM-DS host DiscoverProfiles queries
SMDSHost(o) ==
    LET smdsAddress == IF o.optsNil THEN "" ELSE o.SMDSAddress IN
    IF smdsAddress = "" THEN DefaultSMDSAddress ELSE smdsAddress

\* DiscoverProfiles: EventEntry list to DiscoveredProfile list
ToDiscoveredProfiles(eventEntries) ==
    [i \in 1..Len(eventEntries) |->
        [EventID |-> eventEntries[i].EventID,
         SMDPAddress |-> eventEntries[i].Address]]

\* DiscoverProfilesResult with the Discovery error swallowed
DiscoverProfilesResultSwallowsError(ok, eventEntries) ==
    [NoRet EXCEPT !.profiles = ToDiscoveredProfiles(eventEntries),
                  !.profilesNil = FALSE]

\* DiscoverProfiles' return value once Discovery returned
DiscoverProfilesResult(ok, eventEntries) ==
    IF ~ok THEN [NoRet EXCEPT !.err = "SM-DS discovery failed"]
    ELSE [NoRet EXCEPT !.profiles = ToDiscoveredProfiles(eventEntries),
                       !.profilesNil = FALSE]

\* AfterDiscover treating an empty discovery as a failure
AfterDiscoverEmptyIsError(r) ==
    IF r.err # NoError \/ Len(r.profiles) = 0 THEN "return_error"
    ELSE "download"

\* DiscoverAndDownload's decision once DiscoverProfiles returned
AfterDiscover(r) ==
    IF r.err # NoError THEN "return_error"
    ELSE IF Len(r.profiles) = 0 THEN "return_nil"
    ELSE "download"

\* DownloadHost taking the last discovered profile
DownloadHostLast(profiles) == profiles[Len(profiles)].SMDPAddress

\* the SM-DP+ host DiscoverAndDownload downloads from
DownloadHost(profiles) == profiles[1].SMDPAddress

\* DiscoverProfiles up to its Discovery exchange
DiscoverProfiles(p) ==
    /\ Idle(p)
    /\ \E o \in DiscoverOptions :
         Begin(p, [NoCall EXCEPT !.name = "DiscoverProfiles",
                                 !.optsNil = o.optsNil,
                                 !.SMDSAddress = o.SMDSAddress],
               "dp_discovery", [NoLoc EXCEPT !.host = SMDSHost(o)])
    /\ UNCHANGED <<env, ext, shared>>

\* DiscoverAndDownload up to the Discovery exchange of its DiscoverProfiles
DiscoverAndDownload(p) ==
    /\ Idle(p)
    /\ \E o \in DiscoverOptions :
         Begin(p, [NoCall EXCEPT !.name = "DiscoverAndDownload",
                                 !.optsNil = o.optsNil,
                                 !.SMDSAddress = o.SMDSAddress],
               "dp_discovery",
               [NoLoc EXCEPT !.host = SMDSHost(o), !.composed = TRUE])
    /\ UNCHANGED <<env, ext, shared>>

\* the Discovery exchange and what its caller does with the outcome
DiscoveryStep(p) ==
    /\ pc[p] = "dp_discovery"
    /\ \E outcome \in {"ok", "transport", "authentication"},
          eventEntries \in SeqsUpTo(EventEntries, EventLimit) :
         LET l == loc[p]
             ok == (outcome = "ok")
             e == <<Ex("Discovery", IF ok THEN Len(eventEntries) ELSE 0,
                       0, l.host, ok)>>
             r == DiscoverProfilesResult(ok, eventEntries)
             l2 == [l EXCEPT !.profiles = r.profiles,
                             !.eventEntries = eventEntries]
         IN  /\ ~ok => eventEntries = <<>>
             /\ IF ~l.composed THEN Return(p, l2, e, r)
                ELSE IF AfterDiscover(r) = "return_error"
                THEN Return(p, l2, e, [NoRet EXCEPT !.err = "discovery failed"])
                ELSE IF AfterDiscover(r) = "return_nil"
                THEN Return(p, l2, e, NoRet)
                ELSE Goto(p, "dl", [l2 EXCEPT !.host = DownloadHost(r.profiles),
                                              !.stage = "Idle"], e)
    /\ UNCHANGED <<env, ext, shared>>

(* ============================= download ================================ *)
\* the stages one DownloadProfile goes through, in order
Stages == <<"ChallengeRequested", "ServerAuthenticated",
            "AuthorizedForDownload", "BPPReceiving", "BPPInstalling",
            "Completed">>

StageIndex(s) ==
    IF s = "Idle" THEN 0 ELSE CHOOSE i \in 1..Len(Stages) : Stages[i] = s

\* AfterDownload handing back a result together with the error
AfterDownloadKeepsResult(ok) ==
    IF ~ok THEN [NoRet EXCEPT !.err = "download failed",
                              !.response = "LoadBoundProfilePackageResponse"]
    ELSE [NoRet EXCEPT !.response = "LoadBoundProfilePackageResponse"]

\* DiscoverAndDownload's return value once DownloadProfile returned
AfterDownload(ok) ==
    IF ~ok THEN [NoRet EXCEPT !.err = "download failed"]
    ELSE [NoRet EXCEPT !.response = "LoadBoundProfilePackageResponse"]

\* HonoursCancel checking the context in every stage
HonoursCancelAlways(stage, ctxDone) == ctxDone

\* whether DownloadProfile, about to start a round trip in stage, gives up
\* because its context is done
HonoursCancel(stage, ctxDone) == ctxDone /\ stage # "BPPInstalling"

\* the caller's context is cancelled while DiscoverAndDownload runs
Cancel(p) ==
    /\ pc[p] \in {"dp_discovery", "dl"}
    /\ loc[p].composed
    /\ ~loc[p].ctxDone
    /\ loc' = [loc EXCEPT ![p].ctxDone = TRUE]
    /\ UNCHANGED <<pc, call, trace, ret, env, ext, shared>>

\* one round trip of DownloadProfile; DiscoverAndDownload returns its outcome
DownloadStep(p) ==
    /\ pc[p] = "dl"
    /\ \E ok \in BOOLEAN, segments \in 1..SegmentLimit :
         LET l == loc[p]
             n == StageIndex(l.stage) + 1
             receiving == (l.stage = "BPPReceiving")
             e == <<Ex("DownloadProfile", n, IF receiving THEN l.segment + 1 ELSE 0,
                       l.host, ok)>>
             installing == (Stages[n] = "Completed")
             more == receiving /\ l.segment + 1 < l.segments
         IN  IF HonoursCancel(l.stage, l.ctxDone)
             THEN /\ segments = 1 /\ ~ok
                  /\ installed' = installed
                  /\ Return(p, [l EXCEPT !.stage = "Failed"], <<>>, AfterDownload(FALSE))
             ELSE
             /\ Stages[n] # "BPPReceiving" => segments = 1
             /\ (ok /\ installing) => installed < MaxInstalled
             /\ IF installing
                THEN IF ok THEN installed' = installed + 1
                     ELSE installed' \in {installed, installed + 1} \cap 0..MaxInstalled
                ELSE installed' = installed
             /\ IF ~ok
                THEN Return(p, [l EXCEPT !.stage = "Failed"], e, AfterDownload(FALSE))
                ELSE IF installing
                THEN Return(p, [l EXCEPT !.stage = "Completed"], e, AfterDownload(TRUE))
                ELSE IF more
                THEN Goto(p, "dl", [l EXCEPT !.segment = @ + 1], e)
                ELSE IF Stages[n] = "BPPReceiving"
                THEN Goto(p, "dl", [l EXCEPT !.stage = Stages[n],
                                             !.segments = segments, !.segment = 0], e)
                ELSE Goto(p, "dl", [l EXCEPT !.stage = Stages[n]], e)
    /\ UNCHANGED <<pending, delivered, ext, shared>>

(* ============================ chip info ================================ *)
HexChars == <<"0", "1", "2", "3", "4", "5", "6", "7",
              "8", "9", "A", "B", "C", "D", "E", "F">>

\* hexEncodeEID with the two nibbles of a byte exchanged
hexEncodeEIDLowFirst(data) ==
    IF Len(data) = 0 THEN <<>>
    ELSE [k \in 1..(2 * Len(data)) |->
            LET b == data[(k + 1) \div 2] IN
            IF k % 2 = 1 THEN HexChars[(b % 16) + 1]
            ELSE HexChars[(b \div 16) + 1]]

\* hexEncodeEID: two characters per byte, high nibble first
hexEncodeEID(data) ==
    IF Len(data) = 0 THEN <<>>
    ELSE [k \in 1..(2 * Len(data)) |->
            LET b == data[(k + 1) \div 2] IN
            IF k % 2 = 1 THEN HexChars[(b \div 16) + 1]
            ELSE HexChars[(b % 16) + 1]]

\* EIDs the eUICC may answer with
EIDs == {<<137, 4>>, <<0, 255>>, <<171>>}

\* a query whose error ChipInfo ignores: the value, or nil when it failed
Optional(ok, value) == IF ok THEN value ELSE "nil"

\* ChipInfo behind an acquisition guard that fails fast
ChipInfoGuarded(p) ==
    /\ Idle(p)
    /\ call' = [call EXCEPT ![p] = [NoCall EXCEPT !.name = "ChipInfo"]]
    /\ trace' = [trace EXCEPT ![p] = <<>>]
    /\ IF \E q \in Procs \ {p} : pc[q] # "idle"
       THEN /\ pc' = pc
            /\ loc' = [loc EXCEPT ![p] = NoLoc]
            /\ ret' = [ret EXCEPT ![p] = [NoRet EXCEPT !.done = TRUE, !.err = "Busy"]]
       ELSE /\ pc' = [pc EXCEPT ![p] = "ci_eid"]
            /\ loc' = [loc EXCEPT ![p] = NoLoc]
            /\ ret' = [ret EXCEPT ![p] = NoRet]
    /\ UNCHANGED <<env, ext, shared>>

\* ChipInfo up to its EID exchange
ChipInfo(p) ==
    /\ Idle(p)
    /\ Begin(p, [NoCall EXCEPT !.name = "ChipInfo"], "ci_eid", NoLoc)
    /\ UNCHANGED <<env, ext, shared>>

\* ChipInfo: EID is required
EIDStep(p) ==
    /\ pc[p] = "ci_eid"
    /\ \E ok \in BOOLEAN, eidBytes \in EIDs :
         LET e == <<Ex("EID", 1, 0, "", ok)>> IN
         IF ~ok THEN Return(p, loc[p], e, [NoRet EXCEPT !.err = "EID failed"])
         ELSE Goto(p, "ci_addresses",
                   [loc[p] EXCEPT !.eidBytes = eidBytes,
                                  !.info = [NilInfo EXCEPT !.isNil = FALSE,
                                                           !.EID = hexEncodeEID(eidBytes)]],
                   e)
    /\ UNCHANGED <<env, ext, shared>>

\* ConfiguredAddressesStep with the error returned instead of ignored
ConfiguredAddressesStepStrict(p) ==
    /\ pc[p] = "ci_addresses"
    /\ \E ok \in BOOLEAN :
         LET e == <<Ex("EUICCConfiguredAddresses", 2, 0, "", ok)>> IN
         IF ~ok THEN Return(p, loc[p], e,
                            [NoRet EXCEPT !.err = "EUICCConfiguredAddresses failed"])
         ELSE Goto(p, "ci_info2",
                   [loc[p] EXCEPT !.info.ConfiguredAddresses = "EUICCConfiguredAddresses"],
                   e)
    /\ UNCHANGED <<env, ext, shared>>

\* ChipInfo: ConfiguredAddresses is optional
ConfiguredAddressesStep(p) ==
    /\ pc[p] = "ci_addresses"
    /\ \E ok \in BOOLEAN :
         Goto(p, "ci_info2",
              [loc[p] EXCEPT !.info.ConfiguredAddresses =
                                 Optional(ok, "EUICCConfiguredAddresses")],
              <<Ex("EUICCConfiguredAddresses", 2, 0, "", ok)>>)
    /\ UNCHANGED <<env, ext, shared>>

\* Info2Step with the EUICCInfo2Parsed error returned instead of ignored
Info2StepStrict(p) ==
    /\ pc[p] = "ci_info2"
    /\ \E ok \in BOOLEAN :
         LET e == <<Ex("EUICCInfo2Parsed", 3, 0, "", ok)>> IN
         IF ~ok THEN Return(p, loc[p], e, [NoRet EXCEPT !.err = "EUICCInfo2 failed"])
         ELSE Goto(p, "ci_rat", [loc[p] EXCEPT !.info.Info2 = "EUICCInfo2"], e)
    /\ UNCHANGED <<env, ext, shared>>

\* ChipInfo: EUICCInfo2 is optional
Info2Step(p) ==
    /\ pc[p] = "ci_info2"
    /\ \E ok \in BOOLEAN :
         Goto(p, "ci_rat",
              [loc[p] EXCEPT !.info.Info2 = Optional(ok, "EUICCInfo2")],
              <<Ex("EUICCInfo2Parsed", 3, 0, "", ok)>>)
    /\ UNCHANGED <<env, ext, shared>>

\* ChipInfo: RulesAuthorisationTable is optional; then return &info
RATStep(p) ==
    /\ pc[p] = "ci_rat"
    /\ \E ok \in BOOLEAN :
         LET l == [loc[p] EXCEPT !.info.RulesAuthorisationTable =
                                     Optional(ok, "RulesAuthorisationTable")]
         IN  Return(p, l, <<Ex("GetRAT", 4, 0, "", ok)>>,
                    [NoRet EXCEPT !.info = l.info])
    /\ UNCHANGED <<env, ext, shared>>

(* ======================= fixed-width integers ========================== *)
\* A Go int (64 bit) is its 8 bytes, most significant first; a uint32 is its
\* 4 bytes.  Wraparound is then what the hardware does: the top byte drops.
I64Zero == <<0, 0, 0, 0, 0, 0, 0, 0>>
I64FromByte(b) == <<0, 0, 0, 0, 0, 0, 0, b>>

\* (x << 8) | b on a 64-bit int
I64Shl8Or(x, b) == SubSeq(x, 2, 8) \o <<b>>

I64Negative(x) == x[1] >= 128

\* x fits in 24 bits and is not negative
I64Small(x) == \A k \in 1..5 : x[k] = 0
I64ToInt(x) == x[6] * 65536 + x[7] * 256 + x[8]

RECURSIVE AddCarry(_, _, _)
\* x + k on the low n bytes of x, k a small non-negative int, wrapping
AddCarry(x, n, k) ==
    IF n = 0 THEN x
    ELSE LET t == x[n] + k IN
         AddCarry([x EXCEPT ![n] = t % 256], n - 1, t \div 256)

I64Add(x, k) == AddCarry(x, 8, k)

\* x > n for a 64-bit x and a small non-negative n
I64Greater(x, n) ==
    IF I64Negative(x) THEN FALSE
    ELSE IF ~I64Small(x) THEN TRUE
    ELSE I64ToInt(x) > n

U32Zero == <<0, 0, 0, 0>>

\* the uint32 of a small non-negative number
U32(n) == <<(n \div 16777216) % 256, (n \div 65536) % 256, (n \div 256) % 256, n % 256>>

\* primitive.UnmarshalInt into an int32, then uint32(val): two's complement
\* big-endian, sign-extended to the target width; longer input keeps its low
\* 32 bits
UnmarshalInt32(data) ==
    LET n == Len(data)
        fill == IF data[1] >= 128 THEN 255 ELSE 0
    IN  IF n >= 4 THEN SubSeq(data, n - 3, n)
        ELSE [k \in 1..4 |-> IF k <= 4 - n THEN fill ELSE data[k - (4 - n)]]

(* ================== ExtCardResource.UnmarshalBERTLV ==================== *)
\* a tag is (class, form, number)
Tag(class, constructed, number) ==
    [class |-> class, constructed |-> constructed, number |-> number]

\* Tag.If
TagIf(tag, class, constructed, number) ==
    tag = Tag(class, constructed, number)

\* a TLV node
TLV(tag, value, children) ==
    [tag |-> tag, value |-> value, children |-> children]

ZeroExtCardResource ==
    [InstalledApplication |-> U32Zero, FreeNonVolatileMemory |-> U32Zero,
     FreeVolatileMemory |-> U32Zero]

RECURSIVE ReadLength(_, _, _, _)
\* the long-form length loop: up to n octets, while offset < len(value)
ReadLength(value, offset, n, length) ==
    IF n = 0 \/ offset >= Len(value) THEN [length |-> length, offset |-> offset]
    ELSE ReadLength(value, offset + 1, n - 1, I64Shl8Or(length, value[offset + 1]))

\* ExtField with the 0x82 and 0x83 arms exchanged
ExtFieldSwapped(e, tag, fieldValue) ==
    IF Len(fieldValue) = 0 THEN e
    ELSE IF tag = 129 THEN [e EXCEPT !.InstalledApplication = UnmarshalInt32(fieldValue)]
    ELSE IF tag = 131 THEN [e EXCEPT !.FreeNonVolatileMemory = UnmarshalInt32(fieldValue)]
    ELSE IF tag = 130 THEN [e EXCEPT !.FreeVolatileMemory = UnmarshalInt32(fieldValue)]
    ELSE e

\* the switch on the nested tag byte
ExtField(e, tag, fieldValue) ==
    IF Len(fieldValue) = 0 THEN e
    ELSE IF tag = 129 THEN [e EXCEPT !.InstalledApplication = UnmarshalInt32(fieldValue)]
    ELSE IF tag = 130 THEN [e EXCEPT !.FreeNonVolatileMemory = UnmarshalInt32(fieldValue)]
    ELSE IF tag = 131 THEN [e EXCEPT !.FreeVolatileMemory = UnmarshalInt32(fieldValue)]
    ELSE e

\* ExtIteration that does not move past a field it has decoded
ExtIterationNoAdvance(value, offset, e) ==
    LET stop(o) == [offset |-> o, e |-> e, exit |-> "break"]
        tag == value[offset + 1]
        o1 == offset + 1
    IN  IF o1 >= Len(value) THEN stop(o1)
        ELSE
        LET first == value[o1 + 1]
            o2 == o1 + 1
            long == ReadLength(value, o2, first % 128, I64Zero)
            length == IF first >= 128 THEN long.length ELSE I64FromByte(first)
            o3 == IF first >= 128 THEN long.offset ELSE o2
            end == I64Add(length, o3)
        IN  IF I64Greater(end, Len(value)) THEN stop(o3)
            ELSE IF I64Negative(end) \/ I64ToInt(end) < o3
            THEN [offset |-> o3, e |-> e, exit |-> "panic"]
            ELSE [offset |-> offset,
                  e |-> ExtField(e, tag, SubSeq(value, o3 + 1, I64ToInt(end))),
                  exit |-> "no"]

\* one iteration of the scan over the nested TLVs; offset counts from 0
ExtIteration(value, offset, e) ==
    LET stop(o) == [offset |-> o, e |-> e, exit |-> "break"]
        tag == value[offset + 1]
        o1 == offset + 1
    IN  IF o1 >= Len(value) THEN stop(o1)
        ELSE
        LET first == value[o1 + 1]
            o2 == o1 + 1
            long == ReadLength(value, o2, first % 128, I64Zero)
            length == IF first >= 128 THEN long.length ELSE I64FromByte(first)
            o3 == IF first >= 128 THEN long.offset ELSE o2
            end == I64Add(length, o3)
        IN  IF I64Greater(end, Len(value)) THEN stop(o3)
            ELSE IF I64Negative(end) \/ I64ToInt(end) < o3
            THEN [offset |-> o3, e |-> e, exit |-> "panic"]
            ELSE [offset |-> I64ToInt(end),
                  e |-> ExtField(e, tag, SubSeq(value, o3 + 1, I64ToInt(end))),
                  exit |-> "no"]

(* ===================== primitive value decoders ======================== *)
Digits == <<"0", "1", "2", "3", "4", "5", "6", "7", "8", "9">>

\* fmt.Sprintf("%d", b) for a byte
Decimal(b) ==
    IF b >= 100 THEN <<Digits[(b \div 100) + 1], Digits[((b \div 10) % 10) + 1], Digits[(b % 10) + 1]>>
    ELSE IF b >= 10 THEN <<Digits[(b \div 10) + 1], Digits[(b % 10) + 1]>>
    ELSE <<Digits[b + 1]>>

RECURSIVE JoinDots(_, _)
\* the fallback loop of parseVersion from index i on
JoinDots(data, i) ==
    IF i > Len(data) THEN <<>>
    ELSE <<".">> \o Decimal(data[i]) \o JoinDots(data, i + 1)

\* parseVersion whose fallback loop starts at index 0
parseVersionOffByOne(data) ==
    IF Len(data) = 0 THEN <<>>
    ELSE IF Len(data) = 3
    THEN Decimal(data[1]) \o <<".">> \o Decimal(data[2]) \o <<".">> \o Decimal(data[3])
    ELSE Decimal(data[1]) \o JoinDots(data, 1)

\* parseVersion
parseVersion(data) ==
    IF Len(data) = 0 THEN <<>>
    ELSE IF Len(data) = 3
    THEN Decimal(data[1]) \o <<".">> \o Decimal(data[2]) \o <<".">> \o Decimal(data[3])
    ELSE Decimal(data[1]) \o JoinDots(data, 2)

\* b & (1 << bitPos) != 0
BitSet(b, bitPos) == (b \div (2 ^ bitPos)) % 2 = 1

RECURSIVE BitWalkLSBFirst(_, _, _, _)
\* BitWalk with bitPos running from 0 up to 7
BitWalkLSBFirst(bitData, names, totalBits, bitIndex) ==
    IF bitIndex >= 8 * Len(bitData) THEN <<>>
    ELSE LET b == bitData[(bitIndex \div 8) + 1]
             bitPos == bitIndex % 8
             rest == BitWalkLSBFirst(bitData, names, totalBits, bitIndex + 1)
         IN  IF bitIndex >= totalBits THEN rest
             ELSE IF bitIndex < Len(names) /\ BitSet(b, bitPos)
             THEN <<names[bitIndex + 1]>> \o rest
             ELSE rest

RECURSIVE BitWalk(_, _, _, _)
\* the two nested loops of parseBitString, from bit bitIndex on
BitWalk(bitData, names, totalBits, bitIndex) ==
    IF bitIndex >= 8 * Len(bitData) THEN <<>>
    ELSE LET b == bitData[(bitIndex \div 8) + 1]
             bitPos == 7 - (bitIndex % 8)
             rest == BitWalk(bitData, names, totalBits, bitIndex + 1)
         IN  IF bitIndex >= totalBits THEN rest
             ELSE IF bitIndex < Len(names) /\ BitSet(b, bitPos)
             THEN <<names[bitIndex + 1]>> \o rest
             ELSE rest

\* parseBitString walking the unused-bits octet as data
parseBitStringKeepsFirstOctet(data, names) ==
    IF Len(data) < 2 THEN <<>>
    ELSE LET unusedBits == data[1]
         IN  BitWalk(data, names, Len(data) * 8 - unusedBits, 0)

\* parseBitString
parseBitString(data, names) ==
    IF Len(data) < 2 THEN <<>>
    ELSE LET unusedBits == data[1]
             bitData == Tail(data)
         IN  BitWalk(bitData, names, Len(bitData) * 8 - unusedBits, 0)

\* lower-case hex of a byte string (hex.EncodeToString)
LowerHex == <<"0", "1", "2", "3", "4", "5", "6", "7",
              "8", "9", "a", "b", "c", "d", "e", "f">>

HexEncodeToString(data) ==
    [k \in 1..(2 * Len(data)) |->
        LET b == data[(k + 1) \div 2] IN
        IF k % 2 = 1 THEN LowerHex[(b \div 16) + 1] ELSE LowerHex[(b % 16) + 1]]

RECURSIVE PKIdWalk(_, _)
PKIdWalk(children, i) ==
    IF i > Len(children) THEN <<>>
    ELSE IF Len(children[i].value) > 0
    THEN <<HexEncodeToString(children[i].value)>> \o PKIdWalk(children, i + 1)
    ELSE PKIdWalk(children, i + 1)

\* parsePKIdList
parsePKIdList(tlv) == PKIdWalk(tlv.children, 1)

UICCCapabilityNames ==
    <<"contactlessSupport", "usimSupport", "isimSupport", "csimSupport",
      "akaMilenage", "akaCave", "akaTuak128", "akaTuak256", "rfu1", "rfu2",
      "gbaAuthenUsim", "gbaAuthenISim", "mbmsAuthenUsim", "eapClient",
      "javacard", "multos", "multipleUsimSupport", "multipleIsimSupport",
      "multipleCsimSupport", "berTlvFileSupport", "dfLinkSupport", "catTp",
      "getIdentity", "profile-a-x25519", "profile-b-p256", "suciCalculatorApi">>

RSPCapabilityNames ==
    <<"additionalProfile", "crlSupport", "rpmSupport", "testProfileSupport",
      "deviceInfoExtensibilitySupport">>

ForbiddenPPRNames == <<"pprUpdateControl", "ppr1", "ppr2", "ppr3">>

parseUICCCapability(data) == parseBitString(data, UICCCapabilityNames)
parseRSPCapability(data) == parseBitString(data, RSPCapabilityNames)
parseForbiddenPPR(data) == parseBitString(data, ForbiddenPPRNames)

\* EUICCCategory(cat).String() for the int8 read from the value
EUICCCategoryString(value) ==
    LET cat == value[Len(value)] IN
    IF cat = 1 THEN "basicEuicc"
    ELSE IF cat = 2 THEN "mediumEuicc"
    ELSE IF cat = 3 THEN "contactlessEuicc"
    ELSE "other"

(* ============== CertificationDataObject.UnmarshalBERTLV ================ *)
ZeroCertificationDataObject == [PlatformLabel |-> <<>>, DiscoveryBaseURL |-> <<>>]

RECURSIVE CertChildren(_, _, _)
CertChildren(c, children, i) ==
    IF i > Len(children) THEN c
    ELSE LET child == children[i]
             c2 == IF TagIf(child.tag, "ContextSpecific", FALSE, 0)
                   THEN [c EXCEPT !.PlatformLabel = child.value]
                   ELSE IF TagIf(child.tag, "ContextSpecific", FALSE, 1)
                   THEN [c EXCEPT !.DiscoveryBaseURL = child.value]
                   ELSE c
         IN  CertChildren(c2, children, i + 1)

CertificationDataObjectUnmarshal(c, tlv) ==
    IF ~TagIf(tlv.tag, "ContextSpecific", TRUE, 12)
    THEN [err |-> "ErrUnexpectedTag", c |-> c]
    ELSE [err |-> NoError, c |-> CertChildren(c, tlv.children, 1)]

(* ==================== EUICCInfo2.UnmarshalBERTLV ======================= *)
ZeroEUICCInfo2 ==
    [ProfileVersion |-> <<>>, SVN |-> <<>>, EUICCFirmwareVer |-> <<>>,
     UICCCapability |-> <<>>, TS102241Version |-> <<>>,
     GlobalPlatformVersion |-> <<>>, RSPCapability |-> <<>>,
     EUICCCiPKIdListForVerification |-> <<>>,
     EUICCCiPKIdListForSigning |-> <<>>, EUICCCategory |-> "",
     ForbiddenProfilePolicyRules |-> <<>>, PPVersion |-> <<>>,
     SASAccreditationNumber |-> <<>>,
     CertificationDataObject |-> ZeroCertificationDataObject]

\* RootTagOK without the alias 34
RootTagOKOnly32(tag) == TagIf(tag, "ContextSpecific", TRUE, 32)

\* the root tag check
RootTagOK(tag) ==
    TagIf(tag, "ContextSpecific", TRUE, 32) \/ TagIf(tag, "ContextSpecific", TRUE, 34)

\* ChildCase dispatching on the bare tag number
ChildCaseByNumber(tag) ==
    LET n == tag.number IN
    IF n = 1 THEN "profileVersion"
    ELSE IF n = 2 THEN "svn"
    ELSE IF n = 3 THEN "euiccFirmwareVer"
    ELSE IF n = 4 THEN "extCardResource"
    ELSE IF n = 5 THEN "uiccCapability"
    ELSE IF n = 6 THEN "ts102241Version"
    ELSE IF n = 7 THEN "globalplatformVersion"
    ELSE IF n = 8 THEN "rspCapability"
    ELSE IF n = 9 THEN "euiccCiPKIdListForVerification"
    ELSE IF n = 10 THEN "euiccCiPKIdListForSigning"
    ELSE IF n = 11 THEN "euiccCategory"
    ELSE IF n = 25 THEN "forbiddenProfilePolicyRules"
    ELSE IF n = 12 THEN "sasAccreditationNumber"
    ELSE "skip"

\* ChildCase whose switch ends in the last arm instead of falling through
ChildCaseUnknownFails(tag) ==
    IF TagIf(tag, "ContextSpecific", FALSE, 1) THEN "profileVersion"
    ELSE IF TagIf(tag, "ContextSpecific", FALSE, 2) THEN "svn"
    ELSE IF TagIf(tag, "ContextSpecific", FALSE, 3) THEN "euiccFirmwareVer"
    ELSE IF TagIf(tag, "ContextSpecific", FALSE, 4) THEN "extCardResource"
    ELSE IF TagIf(tag, "ContextSpecific", FALSE, 5) THEN "uiccCapability"
    ELSE IF TagIf(tag, "ContextSpecific", FALSE, 6) THEN "ts102241Version"
    ELSE IF TagIf(tag, "ContextSpecific", FALSE, 7) THEN "globalplatformVersion"
    ELSE IF TagIf(tag, "ContextSpecific", FALSE, 8) THEN "rspCapability"
    ELSE IF TagIf(tag, "ContextSpecific", TRUE, 9) THEN "euiccCiPKIdListForVerification"
    ELSE IF TagIf(tag, "ContextSpecific", TRUE, 10) THEN "euiccCiPKIdListForSigning"
    ELSE IF TagIf(tag, "ContextSpecific", TRUE, 11) THEN "euiccCategory"
    ELSE IF TagIf(tag, "ContextSpecific", FALSE, 25) THEN "forbiddenProfilePolicyRules"
    ELSE IF TagIf(tag, "Universal", FALSE, 4) THEN "ppVersion"
    ELSE IF TagIf(tag, "Universal", FALSE, 12) THEN "sasAccreditationNumber"
    ELSE "certificationDataObject"

\* which arm of the switch a child takes
ChildCase(tag) ==
    IF TagIf(tag, "ContextSpecific", FALSE, 1) THEN "profileVersion"
    ELSE IF TagIf(tag, "ContextSpecific", FALSE, 2) THEN "svn"
    ELSE IF TagIf(tag, "ContextSpecific", FALSE, 3) THEN "euiccFirmwareVer"
    ELSE IF TagIf(tag, "ContextSpecific", FALSE, 4) THEN "extCardResource"
    ELSE IF TagIf(tag, "ContextSpecific", FALSE, 5) THEN "uiccCapability"
    ELSE IF TagIf(tag, "ContextSpecific", FALSE, 6) THEN "ts102241Version"
    ELSE IF TagIf(tag, "ContextSpecific", FALSE, 7) THEN "globalplatformVersion"
    ELSE IF TagIf(tag, "ContextSpecific", FALSE, 8) THEN "rspCapability"
    ELSE IF TagIf(tag, "ContextSpecific", TRUE, 9) THEN "euiccCiPKIdListForVerification"
    ELSE IF TagIf(tag, "ContextSpecific", TRUE, 10) THEN "euiccCiPKIdListForSigning"
    ELSE IF TagIf(tag, "ContextSpecific", TRUE, 11) THEN "euiccCategory"
    ELSE IF TagIf(tag, "ContextSpecific", FALSE, 25) THEN "forbiddenProfilePolicyRules"
    ELSE IF TagIf(tag, "Universal", FALSE, 4) THEN "ppVersion"
    ELSE IF TagIf(tag, "Universal", FALSE, 12) THEN "sasAccreditationNumber"
    ELSE IF TagIf(tag, "ContextSpecific", TRUE, 12) THEN "certificationDataObject"
    ELSE "skip"

\* the arms of the switch that decode in place (all but ExtCardResource and
\* CertificationDataObject)
InfoField(e, child) ==
    LET k == ChildCase(child.tag) IN
    IF k = "profileVersion" THEN [e EXCEPT !.ProfileVersion = parseVersion(child.value)]
    ELSE IF k = "svn" THEN [e EXCEPT !.SVN = parseVersion(child.value)]
    ELSE IF k = "euiccFirmwareVer" THEN [e EXCEPT !.EUICCFirmwareVer = parseVersion(child.value)]
    ELSE IF k = "uiccCapability" THEN [e EXCEPT !.UICCCapability = parseUICCCapability(child.value)]
    ELSE IF k = "ts102241Version" THEN [e EXCEPT !.TS102241Version = parseVersion(child.value)]
    ELSE IF k = "globalplatformVersion" THEN [e EXCEPT !.GlobalPlatformVersion = parseVersion(child.value)]
    ELSE IF k = "rspCapability" THEN [e EXCEPT !.RSPCapability = parseRSPCapability(child.value)]
    ELSE IF k = "euiccCiPKIdListForVerification"
    THEN [e EXCEPT !.EUICCCiPKIdListForVerification = parsePKIdList(child)]
    ELSE IF k = "euiccCiPKIdListForSigning"
    THEN [e EXCEPT !.EUICCCiPKIdListForSigning = parsePKIdList(child)]
    ELSE IF k = "euiccCategory"
    THEN IF Len(child.value) > 0
         THEN [e EXCEPT !.EUICCCategory = EUICCCategoryString(child.value)]
         ELSE e
    ELSE IF k = "forbiddenProfilePolicyRules"
    THEN [e EXCEPT !.ForbiddenProfilePolicyRules = parseForbiddenPPR(child.value)]
    ELSE IF k = "ppVersion" THEN [e EXCEPT !.PPVersion = parseVersion(child.value)]
    ELSE IF k = "sasAccreditationNumber"
    THEN [e EXCEPT !.SASAccreditationNumber = child.value]
    ELSE e

(* ========================= decoder inputs ============================== *)
CtxPrim(n) == Tag("ContextSpecific", FALSE, n)
CtxCons(n) == Tag("ContextSpecific", TRUE, n)
UnivPrim(n) == Tag("Universal", FALSE, n)

\* 810105 820301E240 83020FA0, the value of the node 840C...
SampleValue == <<129, 1, 5, 130, 3, 1, 226, 64, 131, 2, 15, 160>>
SampleNode == TLV(CtxPrim(4), SampleValue, <<>>)

ExtBytes == {0, 1, 2, 128, 129, 130, 131, 255}

\* long-form lengths of eight and nine octets: -1, the least and the
\* greatest 64-bit int, -2 before one more byte, and a ninth octet that
\* pushes the first one out
OverflowValues ==
    {<<129, 136, 255, 255, 255, 255, 255, 255, 255, 255>>,
     <<129, 136, 128, 0, 0, 0, 0, 0, 0, 0>>,
     <<129, 136, 127, 255, 255, 255, 255, 255, 255, 255>>,
     <<130, 136, 255, 255, 255, 255, 255, 255, 255, 254, 7>>,
     <<129, 137, 1, 0, 0, 0, 0, 0, 0, 0, 0>>}

ExtValues ==
    SeqsUpTo(ExtBytes, MaxValueLen)
    \cup {SampleValue,
          <<129, 1, 5, 131, 1, 7>>,
          <<129, 1, 5, 1, 1, 9, 130, 1, 7>>,
          <<131, 2, 15, 160, 129, 130, 0, 1, 5>>}
    \cup OverflowValues

\* tags ExtCardResource.UnmarshalBERTLV refuses
WrongExtTags == {CtxCons(4), UnivPrim(4), CtxPrim(3)}

Leaf(tag, value) == TLV(tag, value, <<>>)

ChildNodes ==
    {SampleNode,
     Leaf(CtxPrim(4), <<130, 1, 7>>),
     Leaf(CtxPrim(4), <<129, 1, 128>>),
     Leaf(CtxPrim(4), <<129, 5, 1>>),
     Leaf(CtxPrim(4), <<129, 136, 255, 255, 255, 255, 255, 255, 255, 255>>),
     Leaf(CtxPrim(1), <<2, 1, 0>>),
     Leaf(CtxPrim(2), <<5>>),
     Leaf(CtxPrim(5), <<0, 160>>),
     Leaf(CtxPrim(8), <<3, 168>>),
     Leaf(CtxPrim(25), <<4, 144>>),
     Leaf(UnivPrim(4), <<1, 2, 3>>),
     Leaf(UnivPrim(12), <<83, 65>>),
     Leaf(CtxPrim(30), <<9>>),
     Leaf(CtxPrim(12), <<1>>),
     TLV(CtxCons(9), <<>>, <<Leaf(UnivPrim(4), <<171, 1>>), Leaf(UnivPrim(4), <<>>)>>),
     TLV(CtxCons(11), <<1>>, <<>>),
     TLV(CtxCons(12), <<>>, <<Leaf(CtxPrim(0), <<80>>), Leaf(CtxPrim(1), <<85>>),
                               Leaf(CtxPrim(2), <<90>>)>>)}

RootTags == {CtxCons(32), CtxCons(34), CtxCons(33), CtxPrim(34),
             Tag("Universal", TRUE, 32)}

(* ========================= decoder steps =============================== *)
NoNode == TLV(CtxPrim(0), <<>>, <<>>)

NoExt == [mode |-> "none", pc |-> "done", root |-> NoNode, child |-> 0,
          value |-> <<>>, offset |-> 0, iterations |-> 0,
          resource |-> ZeroExtCardResource, info |-> ZeroEUICCInfo2,
          err |-> NoError, names |-> <<>>, out |-> <<>>]

\* var resource ExtCardResource; resource.UnmarshalBERTLV(&tlv)
ExtInput(node) == [NoExt EXCEPT !.mode = "direct", !.pc = "start", !.root = node]

\* var info EUICCInfo2; info.UnmarshalBERTLV(&tlv)
InfoInput(node) == [NoExt EXCEPT !.mode = "info2", !.pc = "start", !.root = node]

\* ExtCardResource.UnmarshalBERTLV up to its loop
ExtEnter(x, tlv) ==
    IF ~TagIf(tlv.tag, "ContextSpecific", FALSE, 4)
    THEN [x EXCEPT !.pc = "done", !.err = "ErrUnexpectedTag"]
    ELSE [x EXCEPT !.pc = "scan", !.value = tlv.value, !.offset = 0,
                   !.iterations = 0]

\* ExtCardResource.UnmarshalBERTLV returned nil
ExtLeave(x) ==
    IF x.mode = "direct" THEN [x EXCEPT !.pc = "done"]
    ELSE [x EXCEPT !.pc = "children", !.child = @ + 1]

UnmarshalExtCardResource ==
    /\ ext.mode = "direct" /\ ext.pc = "start"
    /\ ext' = ExtEnter(ext, ext.root)
    /\ UNCHANGED <<pc, call, loc, trace, ret, env, shared>>

\* the loop condition and one iteration of the scan
ScanStep ==
    /\ ext.pc = "scan"
    /\ IF ext.offset >= Len(ext.value) THEN ext' = ExtLeave(ext)
       ELSE LET r == ExtIteration(ext.value, ext.offset, ext.resource)
                x == [ext EXCEPT !.offset = r.offset, !.resource = r.e,
                                 !.iterations = @ + 1]
            IN  IF r.exit = "panic"
                THEN ext' = [x EXCEPT !.pc = "done", !.err = "panic"]
                ELSE IF r.exit = "break" THEN ext' = ExtLeave(x)
                ELSE ext' = x
    /\ UNCHANGED <<pc, call, loc, trace, ret, env, shared>>

\* EUICCInfo2.UnmarshalBERTLV: the root tag check
UnmarshalEUICCInfo2 ==
    /\ ext.mode = "info2" /\ ext.pc = "start"
    /\ ext' = IF ~RootTagOK(ext.root.tag)
              THEN [ext EXCEPT !.pc = "done", !.err = "ErrUnexpectedTag"]
              ELSE [ext EXCEPT !.pc = "children", !.child = 1]
    /\ UNCHANGED <<pc, call, loc, trace, ret, env, shared>>

\* EUICCInfo2.UnmarshalBERTLV: one child of the root, or return nil
ChildStep ==
    /\ ext.pc = "children"
    /\ IF ext.child > Len(ext.root.children) THEN ext' = [ext EXCEPT !.pc = "done"]
       ELSE LET child == ext.root.children[ext.child]
                k == ChildCase(child.tag)
            IN  IF k = "extCardResource" THEN ext' = ExtEnter(ext, child)
                ELSE IF k = "certificationDataObject"
                THEN LET r == CertificationDataObjectUnmarshal(
                                  ext.info.CertificationDataObject, child)
                     IN  IF r.err # NoError
                         THEN ext' = [ext EXCEPT !.pc = "done", !.err = r.err]
                         ELSE ext' = [ext EXCEPT !.info.CertificationDataObject = r.c,
                                                 !.child = @ + 1]
                ELSE ext' = [ext EXCEPT !.info = InfoField(ext.info, child),
                                        !.child = @ + 1]
    /\ UNCHANGED <<pc, call, loc, trace, ret, env, shared>>

(* ===================== primitive decoders applied ====================== *)
\* name tables handed to parseBitString
NameTables ==
    {<<"a", "b", "c">>,
     <<"n0", "n1", "n2", "n3", "n4", "n5", "n6", "n7", "n8", "n9">>,
     RSPCapabilityNames}

CodecBytes == {0, 1, 2, 5, 7, 9, 10, 99, 128, 160, 171, 255}

CodecValues == SeqsUpTo(CodecBytes, MaxCodecLen)

\* versions: the enumerated values and two of four bytes
VersionValues == CodecValues \cup {<<1, 2, 3, 4>>, <<255, 0, 10, 99>>}

\* result := parseBitString(data, names)
BitsInput(data, names) ==
    [NoExt EXCEPT !.mode = "bits", !.pc = "start", !.value = data, !.names = names]

\* result := parseVersion(data)
VersionInput(data) == [NoExt EXCEPT !.mode = "version", !.pc = "start", !.value = data]

\* result := hexEncodeEID(data)
HexInput(data) == [NoExt EXCEPT !.mode = "hex", !.pc = "start", !.value = data]

ParseBitString ==
    /\ ext.mode = "bits" /\ ext.pc = "start"
    /\ ext' = [ext EXCEPT !.pc = "done", !.out = parseBitString(ext.value, ext.names)]
    /\ UNCHANGED <<pc, call, loc, trace, ret, env, shared>>

ParseVersion ==
    /\ ext.mode = "version" /\ ext.pc = "start"
    /\ ext' = [ext EXCEPT !.pc = "done", !.out = parseVersion(ext.value)]
    /\ UNCHANGED <<pc, call, loc, trace, ret, env, shared>>

HexEncodeEID ==
    /\ ext.mode = "hex" /\ ext.pc = "start"
    /\ ext' = [ext EXCEPT !.pc = "done", !.out = hexEncodeEID(ext.value)]
    /\ UNCHANGED <<pc, call, loc, trace, ret, env, shared>>

(* ========================= specifications ============================== *)
InitClient ==
    /\ pc = [p \in Procs |-> "idle"]
    /\ call = [p \in Procs |-> NoCall]
    /\ loc = [p \in Procs |-> NoLoc]
    /\ trace = [p \in Procs |-> <<>>]
    /\ ret = [p \in Procs |-> NoRet]
    /\ delivered = [s \in SeqNums |-> 0]
    /\ installed = 0

\* one client, some notifications already on the eUICC
Init ==
    /\ InitClient
    /\ pending \in SUBSET SeqNums
    /\ ext = NoExt
    /\ shared = FALSE

NotificationStep(p) ==
    \/ ProcessNotifications(p)
    \/ ProcessAllNotifications(p)
    \/ ListStep(p)
    \/ RetrieveStep(p)
    \/ HandleStep(p)
    \/ RemoveStep(p)

ProvisioningStep(p) ==
    \/ DiscoverProfiles(p)
    \/ DiscoverAndDownload(p)
    \/ DiscoveryStep(p)
    \/ DownloadStep(p)
    \/ Cancel(p)
    \/ ChipInfo(p)
    \/ EIDStep(p)
    \/ ConfiguredAddressesStep(p)
    \/ Info2Step(p)
    \/ RATStep(p)

Step(p) == NotificationStep(p) \/ ProvisioningStep(p)

\* the client used as documented, by one goroutine, call after call:
\* notification processing
Next == \E p \in {1} : NotificationStep(p) \/ Consume(p)

Spec == Init /\ [][Next]_vars

\* one call of any kind, from any set of pending notifications
NextSingleCall == \E p \in {1} : Step(p)

SpecSingleCall == Init /\ [][NextSingleCall]_vars

\* the same for discovery, download and chip information
InitProvisioning ==
    /\ InitClient
    /\ pending = {}
    /\ ext = NoExt
    /\ shared = FALSE

NextProvisioning == \E p \in {1} : ProvisioningStep(p) \/ Consume(p)

SpecProvisioning == InitProvisioning /\ [][NextProvisioning]_vars

\* the same, with a download that is never left waiting forever: each round
\* trip of DownloadProfile blocks until it has an outcome
SpecDownload == SpecProvisioning /\ WF_vars(DownloadStep(1))

\* the client shared by the goroutines of Procs
NextConcurrent == \E p \in Procs : Step(p)

InitConcurrent ==
    /\ InitClient
    /\ pending \in SUBSET {1}
    /\ ext = NoExt
    /\ shared = TRUE

SpecConcurrent == InitConcurrent /\ [][NextConcurrent]_vars

\* the decoders applied to every enumerated node
InitDecode ==
    /\ InitClient
    /\ pending = {}
    /\ shared = FALSE
    /\ \/ \E v \in ExtValues : ext = ExtInput(TLV(CtxPrim(4), v, <<>>))
       \/ \E t \in WrongExtTags : ext = ExtInput(TLV(t, SampleValue, <<>>))
       \/ \E t \in RootTags, k \in 0..MaxChildren :
              \E c \in [1..k -> ChildNodes] : ext = InfoInput(TLV(t, <<>>, c))

NextDecode ==
    \/ UnmarshalExtCardResource
    \/ ScanStep
    \/ UnmarshalEUICCInfo2
    \/ ChildStep

SpecDecode == InitDecode /\ [][NextDecode]_vars

\* the primitive decoders and the EID text applied to every enumerated value
InitCodec ==
    /\ InitClient
    /\ pending = {}
    /\ shared = FALSE
    /\ \/ \E v \in CodecValues, t \in NameTables : ext = BitsInput(v, t)
       \/ \E v \in VersionValues : ext = VersionInput(v)
       \/ \E v \in CodecValues : ext = HexInput(v)

NextCodec ==
    \/ ParseBitString
    \/ ParseVersion
    \/ HexEncodeEID

SpecCodec == InitCodec /\ [][NextCodec]_vars

(* ============================= properties ============================== *)
Finished(p) == pc[p] = "idle" /\ ret[p].done

IsProcessing(p) ==
    call[p].name \in {"ProcessNotifications", "ProcessAllNotifications"}

\* positions in p's trace of the exchanges called name
Named(p, name) == {k \in DOMAIN trace[p] : trace[p][k].ex = name}

\* the exchange called name that belongs to loop index i went as ok says
Happened(p, name, i, ok) ==
    \E k \in Named(p, name) : trace[p][k].i = i /\ trace[p][k].ok = ok

\* C1: with AutoRemove set, when retrieval and delivery of a sequence number
\* succeeded and its removal then failed, the result for that sequence number
\* reports Success = true, Removed = false and a non-nil error.
C1_RemovalFailureKeepsDeliverySuccess ==
    \A p \in Procs :
        IsProcessing(p) =>
            \A i \in 1..Len(loc[p].results) :
                ( /\ loc[p].autoRemove
                  /\ Happened(p, "RetrieveNotificationList", i, TRUE)
                  /\ Happened(p, "HandleNotification", i, TRUE)
                  /\ Happened(p, "RemoveNotificationFromList", i, FALSE) )
                => /\ loc[p].results[i].Success
                   /\ ~loc[p].results[i].Removed
                   /\ loc[p].results[i].Error # NoError

\* C2: the sequence numbers are handled in the order given; without
\* ContinueOnError the call stops at the first failed one, touches no later
\* one and returns an error; with ContinueOnError every one is processed, each
\* has a result, and the returned error is nil.
C2_BatchStopsAtFirstFailure ==
    \A p \in Procs :
        (IsProcessing(p) /\ Len(loc[p].seqs) > 0) =>
            LET l == loc[p]
                t == trace[p]
                n == Len(l.results)
                failed == {k \in 1..n : ~l.results[k].Success}
            IN  /\ \A k \in DOMAIN t :
                       t[k].i >= 1 =>
                           /\ t[k].i <= Len(l.seqs)
                           /\ t[k].seq = l.seqs[t[k].i]
                           /\ \A j \in 1..k : t[j].i <= t[k].i
                /\ \A k \in 1..n : l.results[k].SequenceNumber = l.seqs[k]
                /\ Finished(p) => ret[p].results = l.results /\ ~ret[p].resultsNil
                /\ ~l.continueOnError =>
                       /\ failed # {} =>
                              /\ failed = {n}
                              /\ Finished(p)
                              /\ ret[p].err # NoError
                              /\ \A k \in DOMAIN t : t[k].i <= n
                       /\ (Finished(p) /\ failed = {}) =>
                              n = Len(l.seqs) /\ ret[p].err = NoError
                /\ (l.continueOnError /\ Finished(p)) =>
                       /\ n = Len(l.seqs)
                       /\ ret[p].err = NoError
                       /\ \A i \in 1..Len(l.seqs) :
                              \E k \in Named(p, "RetrieveNotificationList") : t[k].i = i

\* a batch of two that stopped at its first sequence number
C2_Witness ==
    \E p \in Procs :
        /\ call[p].name = "ProcessNotifications" /\ Finished(p)
        /\ ~loc[p].continueOnError
        /\ Len(loc[p].seqs) = 2 /\ Len(ret[p].results) = 1
        /\ ~ret[p].results[1].Success

\* C3: per notification the steps are retrieve, deliver, remove: a delivery
\* directly follows the successful retrieval of the same sequence number, a
\* removal happens only with AutoRemove and directly after the successful
\* delivery of the same notification, and a notification whose delivery failed
\* is not removed.
C3_RetrieveDeliverRemoveOrder ==
    \A p \in Procs :
        \A k \in DOMAIN trace[p] :
            LET t == trace[p]
                e == t[k]
            IN  /\ e.ex = "HandleNotification" =>
                       /\ k > 1
                       /\ t[k - 1] = Ex("RetrieveNotificationList", e.i, e.seq, "", TRUE)
                /\ e.ex = "RemoveNotificationFromList" =>
                       /\ loc[p].autoRemove
                       /\ k > 1
                       /\ t[k - 1] = Ex("HandleNotification", e.i, e.seq, "", TRUE)
                /\ (e.ex = "HandleNotification" /\ ~e.ok) =>
                       ~\E j \in Named(p, "RemoveNotificationFromList") : t[j].i = e.i

\* a notification retrieved, delivered and removed
C3_Witness ==
    \E p \in Procs :
        \E k \in Named(p, "RemoveNotificationFromList") :
            /\ k >= 3
            /\ trace[p][k].ok
            /\ trace[p][k - 1].ex = "HandleNotification"
            /\ trace[p][k - 2].ex = "RetrieveNotificationList"

\* C4: the removal step never undoes a delivery: it leaves the server's
\* deliveries as they are, the notification it acts on has been delivered, the
\* result says Removed exactly when the notification has left the eUICC, and
\* after a failed removal the notification is still pending (so a later
\* Process of the same sequence number delivers it again).
C4_RemovalFailureKeepsNotification ==
    [][\A p \in Procs :
          (pc[p] = "pn_remove" /\ Len(loc'[p].results) = Len(loc[p].results) + 1) =>
              LET seqNum == loc[p].seqs[loc[p].idx]
                  r == loc'[p].results[Len(loc'[p].results)]
              IN  /\ delivered' = delivered
                  /\ delivered[seqNum] >= 1
                  /\ r.SequenceNumber = seqNum
                  /\ r.Removed = (seqNum \notin pending')
                  /\ r.Error # NoError => seqNum \in pending']_vars

\* a notification delivered, not removed, and delivered again
C4_Witness ==
    \E p \in Procs :
        \E j \in Named(p, "RemoveNotificationFromList") :
            \E k \in Named(p, "HandleNotification") :
                /\ j < k
                /\ ~trace[p][j].ok
                /\ trace[p][k].ok
                /\ trace[p][k].seq = trace[p][j].seq
                /\ delivered[trace[p][k].seq] >= 2

\* C5: DiscoverProfiles returns an empty, non-nil list and no error when the
\* discovery yields no event, a nil list and an error when the discovery fails,
\* and on success one (EventID, SMDPAddress) pair per event, in order.
C5_DiscoverProfilesOutcomes ==
    \A p \in Procs :
        (call[p].name = "DiscoverProfiles" /\ Finished(p)) =>
            LET d == trace[p][1]
                r == ret[p]
                entries == loc[p].eventEntries
            IN  /\ Len(trace[p]) = 1
                /\ d.ex = "Discovery"
                /\ d.ok <=> r.err = NoError
                /\ d.ok =>
                       /\ ~r.profilesNil
                       /\ Len(r.profiles) = Len(entries)
                       /\ \A i \in 1..Len(entries) :
                              /\ r.profiles[i].EventID = entries[i].EventID
                              /\ r.profiles[i].SMDPAddress = entries[i].Address
                /\ ~d.ok => r.profilesNil /\ r.profiles = <<>>

\* a discovery that found nothing
C5_Witness ==
    \E p \in Procs :
        /\ call[p].name = "DiscoverProfiles" /\ Finished(p)
        /\ trace[p][1].ok
        /\ loc[p].eventEntries = <<>>
        /\ ~ret[p].profilesNil

\* C6: DiscoverAndDownload finishes its discovery before any download round
\* trip, and when events were found it runs one download, from its first stage
\* on, against the address of the first event and no other.
C6_DownloadsFirstEventOnly ==
    \A p \in Procs :
        call[p].name = "DiscoverAndDownload" =>
            LET t == trace[p]
                dl == Named(p, "DownloadProfile")
                entries == loc[p].eventEntries
            IN  /\ \A k \in DOMAIN t :
                       /\ t[k].ex \in {"Discovery", "DownloadProfile"}
                       /\ t[k].ex = "Discovery" <=> k = 1
                /\ dl # {} =>
                       /\ t[1].ok
                       /\ Len(entries) >= 1
                       /\ \A k \in dl : /\ t[k].host = entries[1].Address
                                        /\ k = 2 => t[k].i = 1
                                        /\ k > 2 =>
                                             \/ t[k].i = t[k - 1].i + 1
                                             \/ /\ t[k].i = 5 /\ t[k - 1].i = 5
                                                /\ t[k].seq = t[k - 1].seq + 1
                /\ (Finished(p) /\ t[1].ok /\ Len(entries) >= 1) =>
                       \/ Cardinality({k \in dl : t[k].i = 1}) = 1
                       \/ dl = {} /\ loc[p].ctxDone

\* two events at different addresses, the download from the first one failed
C6_Witness ==
    \E p \in Procs :
        /\ call[p].name = "DiscoverAndDownload" /\ Finished(p)
        /\ Len(loc[p].eventEntries) = 2
        /\ loc[p].eventEntries[1].Address # loc[p].eventEntries[2].Address
        /\ loc[p].stage = "Failed"
        /\ ret[p].err # NoError

\* C7: DiscoverAndDownload returns nil and no error when nothing was
\* discovered, nil and an error when the discovery failed, and in both cases
\* has made no download round trip.
C7_NoDownloadWithoutProfile ==
    \A p \in Procs :
        (call[p].name = "DiscoverAndDownload" /\ Finished(p)) =>
            LET d == trace[p][1] IN
            /\ (d.ok /\ Len(loc[p].eventEntries) = 0) =>
                   /\ ret[p].response = "nil"
                   /\ ret[p].err = NoError
                   /\ Len(trace[p]) = 1
            /\ ~d.ok =>
                   /\ ret[p].response = "nil"
                   /\ ret[p].err # NoError
                   /\ Len(trace[p]) = 1

\* a discover-and-download that found nothing
C7_Witness ==
    \E p \in Procs :
        /\ call[p].name = "DiscoverAndDownload" /\ Finished(p)
        /\ trace[p][1].ok
        /\ loc[p].eventEntries = <<>>

\* C8: ChipInfo fails exactly when the EID query fails; otherwise it returns
\* a ChipInfo with the EID set, whatever the three optional queries did, and
\* the part of each failed query nil.
C8_ChipInfoFailsOnlyOnEID ==
    \A p \in Procs :
        (call[p].name = "ChipInfo" /\ Finished(p)) =>
            LET t == trace[p]
                r == ret[p]
            IN  /\ t[1].ex = "EID"
                /\ r.err # NoError <=> ~t[1].ok
                /\ ~t[1].ok => r.info.isNil
                /\ t[1].ok =>
                       /\ ~r.info.isNil
                       /\ r.info.EID = hexEncodeEID(loc[p].eidBytes)
                       /\ Len(r.info.EID) = 2 * Len(loc[p].eidBytes)
                       /\ Len(t) = 4
                       /\ ~t[2].ok => r.info.ConfiguredAddresses = "nil"
                       /\ ~t[3].ok => r.info.Info2 = "nil"
                       /\ ~t[4].ok => r.info.RulesAuthorisationTable = "nil"

\* the EID was read and the three optional queries all failed
C8_Witness ==
    \E p \in Procs :
        /\ call[p].name = "ChipInfo" /\ Finished(p)
        /\ Len(trace[p]) = 4
        /\ trace[p][1].ok /\ ~trace[p][2].ok /\ ~trace[p][3].ok /\ ~trace[p][4].ok
        /\ ret[p].err = NoError

SampleResource ==
    [InstalledApplication |-> U32(5), FreeNonVolatileMemory |-> U32(123456),
     FreeVolatileMemory |-> U32(4000)]

\* the root is a valid EUICCInfo2 whose only tag-4 child is the sample node
HasSampleChild(root) ==
    /\ RootTagOK(root.tag)
    /\ \E i \in DOMAIN root.children : root.children[i] = SampleNode
    /\ \A i \in DOMAIN root.children :
           ChildCase(root.children[i].tag) = "extCardResource"
               => root.children[i] = SampleNode

C10_SampleMemoryResource ==
    (ext.pc = "done" /\
        \/ ext.mode = "direct" /\ ext.root = SampleNode
        \/ ext.mode = "info2" /\ HasSampleChild(ext.root))
    => ext.err = NoError /\ ext.resource = SampleResource

\* the sample decoded as the child of an EUICCInfo2 root next to a sibling
C10_Witness ==
    /\ ext.pc = "done" /\ ext.mode = "info2"
    /\ HasSampleChild(ext.root)
    /\ Len(ext.root.children) = 2
    /\ ext.resource.FreeNonVolatileMemory = <<0, 1, 226, 64>>

(* ----------------------------- C11 .. C14 ------------------------------ *)
\* the unsigned big-endian value of 1 to 4 bytes, as a uint32
Unsigned32(bytes) ==
    LET n == Len(bytes) IN
    [k \in 1..4 |-> IF k <= 4 - n THEN 0 ELSE bytes[k - (4 - n)]]

\* value is exactly one nested field 81/82/83 of 1 to 4 bytes
SingleField(value) ==
    /\ Len(value) >= 3
    /\ value[1] \in {129, 130, 131}
    /\ value[2] \in 1..4
    /\ Len(value) = 2 + value[2]

\* C11: a memory-resource field of 1 to 4 bytes decodes to the unsigned
\* big-endian value of those bytes, also when the top bit of the first byte
\* is set (80 decodes to 128)
C11_MemoryFieldsUnsigned ==
    (/\ ext.pc = "done" /\ ext.mode = "direct"
     /\ ext.root.tag = CtxPrim(4)
     /\ SingleField(ext.root.value))
    => LET v == ext.root.value
           field == SubSeq(v, 3, Len(v))
       IN  /\ ext.err = NoError
           /\ v[1] = 129 => ext.resource.InstalledApplication = Unsigned32(field)
           /\ v[1] = 130 => ext.resource.FreeNonVolatileMemory = Unsigned32(field)
           /\ v[1] = 131 => ext.resource.FreeVolatileMemory = Unsigned32(field)

PPVersionNode == Leaf(UnivPrim(4), <<1, 2, 3>>)
SASNode == Leaf(UnivPrim(12), <<83, 65>>)
CertNode ==
    TLV(CtxCons(12), <<>>, <<Leaf(CtxPrim(0), <<80>>), Leaf(CtxPrim(1), <<85>>),
                              Leaf(CtxPrim(2), <<90>>)>>)

AcceptedRootTags == {CtxCons(32), CtxCons(34)}

\* C12: siblings that share a tag number but differ in class or form each
\* populate their own field: context-specific primitive 4 fills only
\* ExtCardResource and universal primitive 4 only PPVersion, in either order;
\* likewise universal 12 and context-specific constructed 12
C12_ExactTripleDispatch ==
    (ext.pc = "done" /\ ext.mode = "info2" /\ ext.root.tag \in AcceptedRootTags)
    => /\ ext.root.children \in {<<SampleNode, PPVersionNode>>,
                                 <<PPVersionNode, SampleNode>>}
          => /\ ext.err = NoError
             /\ ext.resource = SampleResource
             /\ ext.info = [ZeroEUICCInfo2 EXCEPT
                               !.PPVersion = <<"1", ".", "2", ".", "3">>]
       /\ ext.root.children \in {<<SASNode, CertNode>>, <<CertNode, SASNode>>}
          => /\ ext.err = NoError
             /\ ext.resource = ZeroExtCardResource
             /\ ext.info = [ZeroEUICCInfo2 EXCEPT
                               !.SASAccreditationNumber = <<83, 65>>,
                               !.CertificationDataObject =
                                   [PlatformLabel |-> <<80>>,
                                    DiscoveryBaseURL |-> <<85>>]]

\* the universal tag 4 came first and the context-specific one second
C12_Witness ==
    /\ ext.pc = "done" /\ ext.mode = "info2"
    /\ ext.root.tag = CtxCons(34)
    /\ ext.root.children = <<PPVersionNode, SampleNode>>
    /\ ext.info.PPVersion = <<"1", ".", "2", ".", "3">>
    /\ ext.resource.InstalledApplication = <<0, 0, 0, 5>>

\* C13: a root tagged context-specific constructed 32 or 34 is decoded, the
\* same way under either tag; every other root tag yields ErrUnexpectedTag
\* and nothing is decoded
C13_RootTagAliases ==
    (ext.pc = "done" /\ ext.mode = "info2")
    => IF ext.root.tag \in AcceptedRootTags
       THEN /\ ext.err # "ErrUnexpectedTag"
            /\ ext.err = NoError => ext.child = Len(ext.root.children) + 1
            /\ ext.root.children = <<Leaf(CtxPrim(1), <<2, 1, 0>>)>>
               => /\ ext.err = NoError
                  /\ ext.info = [ZeroEUICCInfo2 EXCEPT
                                    !.ProfileVersion = <<"2", ".", "1", ".", "0">>]
            /\ ext.root.children = <<Leaf(CtxPrim(2), <<5>>), SampleNode>>
               => /\ ext.err = NoError
                  /\ ext.info = [ZeroEUICCInfo2 EXCEPT !.SVN = <<"5">>]
                  /\ ext.resource = SampleResource
       ELSE /\ ext.err = "ErrUnexpectedTag"
            /\ ext.child = 0
            /\ ext.info = ZeroEUICCInfo2
            /\ ext.resource = ZeroExtCardResource

\* a root tagged 34 decoded to the end
C13_Witness ==
    /\ ext.pc = "done" /\ ext.mode = "info2"
    /\ ext.root.tag = CtxCons(34)
    /\ ext.root.children = <<Leaf(CtxPrim(2), <<5>>), SampleNode>>
    /\ ext.err = NoError
    /\ ext.info.SVN = <<"5">>

\* the tags the switch of EUICCInfo2.UnmarshalBERTLV has an arm for
KnownChildTags ==
    {CtxPrim(n) : n \in (1..8) \cup {25}}
    \cup {CtxCons(n) : n \in 9..12}
    \cup {UnivPrim(4), UnivPrim(12)}

\* the value of the last child tagged tag, or default when there is none
LastValue(children, tag, default) ==
    LET I == {i \in DOMAIN children : children[i].tag = tag} IN
    IF I = {} THEN default
    ELSE children[CHOOSE i \in I : \A j \in I : j <= i].value

C15_BitStringExample ==
    (/\ ext.pc = "done" /\ ext.mode = "bits"
     /\ ext.value = <<0, 160>> /\ ext.names = <<"a", "b", "c">>)
    => ext.out = <<"a", "b">>

\* C15 as amended: A0 is 1010 0000, bit positions 0 and 2, so the same
\* input decodes to ["a","c"]
C15_BitStringExampleDecodesAC ==
    (/\ ext.pc = "done" /\ ext.mode = "bits"
     /\ ext.value = <<0, 160>> /\ ext.names = <<"a", "b", "c">>)
    => ext.out = <<"a", "c">>

C15_Witness ==
    /\ ext.pc = "done" /\ ext.mode = "bits"
    /\ ext.value = <<0, 160>> /\ ext.names = <<"a", "b", "c">>
    /\ Len(ext.out) = 2

\* bit i (0-based, most significant bit of the first octet first) of octets
BitAt(octets, i) ==
    (octets[(i \div 8) + 1] % (2 ^ (8 - (i % 8)))) >= 2 ^ (7 - (i % 8))

\* the positions parseBitString must report for data and a table of n names
SetPositions(data, n) ==
    IF Len(data) < 2 THEN {}
    ELSE LET octets == Tail(data) IN
         {i \in 0..(8 * Len(octets) - 1) :
             /\ i < 8 * Len(octets) - data[1]
             /\ i < n
             /\ BitAt(octets, i)}

\* C16: parseBitString returns exactly the names of the set bit positions
\* that lie before the unused tail and inside the table, in increasing
\* order of position, each once
C16_BitStringPositions ==
    (ext.pc = "done" /\ ext.mode = "bits")
    => LET P == SetPositions(ext.value, Len(ext.names)) IN
       /\ Len(ext.out) = Cardinality(P)
       /\ \A i \in P :
              ext.out[Cardinality({j \in P : j < i}) + 1] = ext.names[i + 1]

\* two octets, seven unused bits: position 9 is set but in the unused tail
C16_Witness ==
    /\ ext.pc = "done" /\ ext.mode = "bits"
    /\ ext.value = <<7, 255, 255>>
    /\ Len(ext.names) = 10
    /\ Len(ext.out) = 9

\* the position of the j-th dot of text; 0 before the first, past the end
\* after the last
DotAt(text, j) ==
    LET D == {k \in DOMAIN text : text[k] = "."} IN
    IF j = 0 THEN 0
    ELSE IF j > Cardinality(D) THEN Len(text) + 1
    ELSE CHOOSE k \in D : Cardinality({m \in D : m < k}) = j - 1

\* field is the decimal numeral of b, without leading zeros
IsDecimalOf(field, b) ==
    /\ Len(field) \in 1..3
    /\ \A k \in DOMAIN field : \E d \in 0..9 : Digits[d + 1] = field[k]
    /\ Len(field) > 1 => field[1] # "0"
    /\ LET val(k) == CHOOSE d \in 0..9 : Digits[d + 1] = field[k]
           n == Len(field)
       IN  b = (IF n = 1 THEN val(1)
                ELSE IF n = 2 THEN 10 * val(1) + val(2)
                ELSE 100 * val(1) + 10 * val(2) + val(3))

\* C17: parseVersion gives "" for no bytes and otherwise the decimal values
\* of all bytes joined by single dots, with no dot at either end; 02 01 00
\* gives "2.1.0" and 05 gives "5"
C17_VersionText ==
    (ext.pc = "done" /\ ext.mode = "version")
    => LET data == ext.value
           text == ext.out
       IN  /\ Len(data) = 0 => text = <<>>
           /\ data = <<2, 1, 0>> => text = <<"2", ".", "1", ".", "0">>
           /\ data = <<5>> => text = <<"5">>
           /\ Len(data) > 0 =>
                /\ Cardinality({k \in DOMAIN text : text[k] = "."}) = Len(data) - 1
                /\ \A j \in 1..Len(data) :
                       IsDecimalOf(SubSeq(text, DotAt(text, j - 1) + 1,
                                          DotAt(text, j) - 1), data[j])

\* the fallback path on four bytes
C17_Witness ==
    /\ ext.pc = "done" /\ ext.mode = "version"
    /\ ext.value = <<255, 0, 10, 99>>
    /\ Len(ext.out) = 11

(* -------------------------------- C18 ---------------------------------- *)
\* the first nested TLV of value is truncated or of indefinite length
MalformedNested(value) ==
    \/ Len(value) = 1
    \/ Len(value) >= 2 /\ value[2] < 128 /\ value[2] > Len(value) - 2
    \/ Len(value) >= 2 /\ value[2] = 128

\* C18: a truncated or indefinite-length nested TLV inside the tag-4 value
\* makes ExtCardResource.UnmarshalBERTLV, and the enclosing EUICCInfo2
\* decode, return an error
C18_MalformedNestedIsFatal ==
    (/\ ext.pc = "done"
     /\ \/ /\ ext.mode = "direct"
           /\ ext.root.tag = CtxPrim(4)
           /\ MalformedNested(ext.root.value)
        \/ /\ ext.mode = "info2"
           /\ ext.root.tag \in AcceptedRootTags
           /\ \E i \in DOMAIN ext.root.children :
                  /\ ext.root.children[i].tag = CtxPrim(4)
                  /\ MalformedNested(ext.root.children[i].value))
    => ext.err # NoError

(* -------------------------------- C19 ---------------------------------- *)
UpperHexDigits == <<"0", "1", "2", "3", "4", "5", "6", "7",
                    "8", "9", "A", "B", "C", "D", "E", "F">>

\* C19: the EID text has two characters per byte, the high nibble first,
\* drawn from 0-9 and A-F; no bytes give the empty string
C19_EIDUppercaseHex ==
    (ext.pc = "done" /\ ext.mode = "hex")
    => /\ Len(ext.out) = 2 * Len(ext.value)
       /\ \A k \in DOMAIN ext.out : \E d \in 0..15 : UpperHexDigits[d + 1] = ext.out[k]
       /\ \A i \in DOMAIN ext.value :
              LET hi == CHOOSE d \in 0..15 : UpperHexDigits[d + 1] = ext.out[2 * i - 1]
                  lo == CHOOSE d \in 0..15 : UpperHexDigits[d + 1] = ext.out[2 * i]
              IN  ext.value[i] = 16 * hi + lo

C19_Witness ==
    /\ ext.pc = "done" /\ ext.mode = "hex"
    /\ ext.value = <<171, 10>>
    /\ ext.out = <<"A", "B", "0", "A">>

(* -------------------------------- C20 ---------------------------------- *)
\* C20: the installed-profile set changes only in the round trip that
\* leaves BPPInstalling, so every earlier failure, a failed or empty
\* discovery included, leaves it as it was; and a DiscoverAndDownload that
\* fails returns the error alone, with no result to read an install state
\* from
C20_FailureBeforeInstallingKeepsProfiles ==
    [][/\ installed' # installed
          => \E p \in Procs :
                 /\ pc[p] = "dl" /\ loc[p].stage = "BPPInstalling"
                 /\ pc'[p] = "idle"
       /\ \A p \in Procs :
            (/\ call[p].name = "DiscoverAndDownload"
             /\ pc[p] # "idle" /\ pc'[p] = "idle"
             /\ ret'[p].err # NoError)
            => /\ ret'[p].response = "nil"
               /\ ~(pc[p] = "dl" /\ loc[p].stage = "BPPInstalling")
                  => installed' = installed
      ]_vars

\* the download failed while installing and the profile is there all the same
C20_Witness ==
    /\ Finished(1) /\ call[1].name = "DiscoverAndDownload"
    /\ ret[1].err # NoError
    /\ trace[1][Len(trace[1])] = Ex("DownloadProfile", 6, 0, loc[1].host, FALSE)
    /\ installed = 1

(* -------------------------------- C21 ---------------------------------- *)
\* C21: a download gives up for a cancellation only between two round
\* trips, never in the middle of one, and only before BPPInstalling; once
\* BPPInstalling has begun a cancellation changes nothing and the session
\* goes on to Completed or Failed
C21_CancelOnlyBeforeInstalling ==
    /\ [][\A p \in Procs :
            /\ (pc[p] = "dl" /\ pc'[p] = "idle" /\ trace'[p] = trace[p])
               => /\ loc[p].ctxDone
                  /\ loc[p].stage # "BPPInstalling"
                  /\ installed' = installed
            /\ (/\ pc[p] = "dl" /\ loc[p].stage = "BPPInstalling"
                /\ loc'[p].stage # "BPPInstalling")
               => /\ loc'[p].stage \in {"Completed", "Failed"}
                  /\ Len(trace'[p]) = Len(trace[p]) + 1
                  /\ trace'[p][Len(trace'[p])].ex = "DownloadProfile"
                  /\ trace'[p][Len(trace'[p])].i = 6
         ]_vars
    /\ (pc[1] = "dl" /\ loc[1].stage = "BPPInstalling")
       ~> (pc[1] = "idle" /\ loc[1].stage \in {"Completed", "Failed"})

\* cancelled while installing, and the profile was installed all the same
C21_Witness ==
    /\ Finished(1) /\ call[1].name = "DiscoverAndDownload"
    /\ loc[1].ctxDone
    /\ loc[1].stage = "Completed"
    /\ loc[1].segments = MaxSegments
    /\ ret[1].err = NoError
    /\ installed = 1

(* -------------------------------- C22 ---------------------------------- *)
\* C22: nothing is retried within one call: for each given sequence number
\* the retrieve, deliver and remove exchanges are issued at most once, the
\* discovery at most once, every round trip of the one download at most
\* once, and a failed discovery or download round trip is the last exchange
\* of the call
C22_NoExchangeRepeated ==
    \A p \in Procs :
        LET t == trace[p] IN
        /\ \A j, k \in DOMAIN t :
               j < k => ~(/\ t[j].ex = t[k].ex
                          /\ t[j].i = t[k].i
                          /\ t[j].seq = t[k].seq)
        /\ Cardinality(Named(p, "Discovery")) <= 1
        /\ Cardinality({k \in Named(p, "DownloadProfile") : t[k].i = 1}) <= 1
        /\ \A j \in DOMAIN t :
               (t[j].ex \in {"Discovery", "DownloadProfile"} /\ ~t[j].ok)
                   => j = Len(t)
        /\ \A j \in DOMAIN t :
               (/\ t[j].ex \in {"RetrieveNotificationList", "HandleNotification",
                                "RemoveNotificationFromList"}
                /\ ~t[j].ok)
                   => \A k \in DOMAIN t : k > j => t[k].i > t[j].i

\* the first sequence number failed at retrieval and the call went on to
\* the second one
C22_Witness ==
    /\ Finished(1) /\ call[1].name = "ProcessNotifications"
    /\ call[1].ContinueOnError
    /\ Len(call[1].seqs) = 2
    /\ Len(trace[1]) >= 3
    /\ trace[1][1].ex = "RetrieveNotificationList" /\ ~trace[1][1].ok
    /\ trace[1][2].i = 2

(* ----------------------------- C23, C24 -------------------------------- *)
\* seqs lists exactly the members of S, in increasing order
ListsInOrder(seqs, S) ==
    /\ Len(seqs) = Cardinality(S)
    /\ {seqs[k] : k \in DOMAIN seqs} = S
    /\ \A j, k \in DOMAIN seqs : j < k => seqs[j] < seqs[k]

\* C23: ProcessAllNotifications is ListNotification followed by
\* ProcessNotifications over the listed sequence numbers in list order with
\* the same options; a failed listing returns an error and an empty list
\* returns nil results and no error, each without any further exchange
C23_ProcessAllIsListThenProcess ==
    [][\A p \in Procs :
         pc[p] = "pa_list" /\ pc'[p] # "pa_list" =>
           LET listed == trace'[p][1] IN
           /\ Len(trace'[p]) = 1
           /\ listed.ex = "ListNotification"
           /\ UNCHANGED <<pending, delivered>>
           /\ ~listed.ok =>
                /\ pc'[p] = "idle" /\ ret'[p].done
                /\ ret'[p].err # NoError /\ ret'[p].resultsNil
           /\ (listed.ok /\ pending = {}) =>
                /\ pc'[p] = "idle" /\ ret'[p].done
                /\ ret'[p].err = NoError /\ ret'[p].resultsNil
           /\ (listed.ok /\ pending # {}) =>
                /\ pc'[p] = "pn_retrieve"
                /\ ListsInOrder(loc'[p].seqs, pending)
                /\ loc'[p] = [NoLoc EXCEPT
                                 !.seqs = loc'[p].seqs, !.idx = 1,
                                 !.autoRemove = call[p].AutoRemove,
                                 !.continueOnError = call[p].ContinueOnError]
      ]_vars

\* both pending notifications were listed and then processed in list order
C23_Witness ==
    /\ Finished(1) /\ call[1].name = "ProcessAllNotifications"
    /\ loc[1].seqs = <<1, 2>>
    /\ Len(ret[1].results) = 2
    /\ ret[1].results[2].SequenceNumber = 2
    /\ trace[1][1] = Ex("ListNotification", 0, 0, "", TRUE)

\* C24: ProcessNotifications given no sequence numbers returns nil results
\* and a nil error and makes no exchange, whatever the options
C24_NoSequenceNumbersNoWork ==
    \A p \in Procs :
        (call[p].name = "ProcessNotifications" /\ call[p].seqs = <<>>)
        => /\ pc[p] = "idle" /\ ret[p].done
           /\ ret[p].resultsNil /\ ret[p].results = <<>>
           /\ ret[p].err = NoError
           /\ trace[p] = <<>>
           /\ \A s \in SeqNums : delivered[s] = 0

\* called with options set and no sequence numbers
C24_Witness ==
    /\ Finished(1) /\ call[1].name = "ProcessNotifications"
    /\ call[1].seqs = <<>>
    /\ ~call[1].optsNil /\ call[1].AutoRemove /\ call[1].ContinueOnError
    /\ pending # {}

(* ----------------------------- C25, C26 -------------------------------- *)
\* C25: for every value of a tag-4 node the scan stays inside the value: the
\* offset never leaves 0..len(value) and no slice is taken whose end lies
\* before its start or past the value, also when a long-form length
\* overflows the 64-bit int
C25_ScanStaysInBounds ==
    (ext.mode = "direct" /\ ext.root.tag = CtxPrim(4))
    => /\ ext.offset \in 0..Len(ext.value)
       /\ ext.err # "panic"

\* C26: each iteration of the scan either leaves the loop or moves the
\* offset forward by at least the tag and length octets, so the scan makes
\* no more iterations than the value has bytes
C26_ScanTerminates ==
    [][ext.pc = "scan" =>
          /\ \/ ext'.pc # "scan"
             \/ /\ ext'.offset >= ext.offset + 2
                /\ ext'.offset <= Len(ext.value)
                /\ ext'.value = ext.value
          /\ ext'.iterations <= Len(ext.value)
      ]_vars

\* the sample value took three iterations
C26_Witness ==
    /\ ext.pc = "done" /\ ext.mode = "direct"
    /\ ext.root = SampleNode
    /\ ext.iterations = 3
    /\ ext.offset = Len(ext.value)

(* ----------------------------- C27 .. C30 ------------------------------ *)
\* C27: the results of a call are at most as many as the sequence numbers
\* processed, result i is for the i-th of them, Success holds exactly when
\* Error is nil, Removed implies Success and AutoRemove, and without
\* ContinueOnError every result before the last is a success
C27_ResultsWellFormed ==
    \A p \in Procs :
        (/\ Finished(p)
         /\ call[p].name \in {"ProcessNotifications", "ProcessAllNotifications"})
        => LET R == ret[p].results
               given == IF call[p].name = "ProcessNotifications"
                        THEN call[p].seqs ELSE loc[p].seqs
           IN  /\ Len(R) <= Len(given)
               /\ \A i \in DOMAIN R :
                      /\ R[i].SequenceNumber = given[i]
                      /\ R[i].Success <=> R[i].Error = NoError
                      /\ R[i].Removed => R[i].Success /\ call[p].AutoRemove
                      /\ (~call[p].ContinueOnError /\ i < Len(R)) => R[i].Success

\* two results, the first a failure the call went on from
C27_Witness ==
    /\ Finished(1) /\ call[1].name = "ProcessNotifications"
    /\ call[1].AutoRemove /\ call[1].ContinueOnError
    /\ Len(ret[1].results) = 2
    /\ ~ret[1].results[1].Success
    /\ ret[1].results[2].Removed

\* C28: EUICCInfo2.UnmarshalBERTLV fails exactly when the root tag is
\* neither context-specific constructed 32 nor 34; under a valid root no
\* children make the decode fail
C28_FailsOnlyOnRootTag ==
    (ext.pc = "done" /\ ext.mode = "info2")
    => (ext.err # NoError <=> ext.root.tag \notin AcceptedRootTags)

\* C29: a retrieval that succeeds but finds no notification makes that
\* sequence number fail, and neither a delivery nor a removal is attempted
\* for it
C29_NotFoundIsFailureWithoutDelivery ==
    /\ [][\A p \in Procs :
            (/\ pc[p] = "pn_retrieve"
             /\ loc[p].seqs[loc[p].idx] \notin pending
             /\ Len(trace'[p]) = Len(trace[p]) + 1
             /\ trace'[p][Len(trace'[p])].ok)
            => LET i == loc[p].idx
                   R == loc'[p].results
               IN  /\ UNCHANGED <<pending, delivered>>
                   /\ Len(R) = Len(loc[p].results) + 1
                   /\ R[Len(R)].SequenceNumber = loc[p].seqs[i]
                   /\ ~R[Len(R)].Success /\ ~R[Len(R)].Removed
                   /\ R[Len(R)].Error # NoError
                   /\ \/ pc'[p] = "pn_retrieve" /\ loc'[p].idx = i + 1
                      \/ pc'[p] = "idle" /\ ret'[p].done
         ]_vars
    /\ [](\A p \in Procs : \A i \in DOMAIN loc[p].results :
            loc[p].results[i].Error = "notification not found"
            => \A k \in DOMAIN trace[p] :
                   trace[p][k].i = i
                   => trace[p][k].ex \notin {"HandleNotification",
                                            "RemoveNotificationFromList"})

\* sequence number 2 is not on the eUICC: retrieved, not found, not delivered
C29_Witness ==
    /\ Finished(1) /\ call[1].name = "ProcessNotifications"
    /\ call[1].seqs = <<2>>
    /\ 2 \notin pending /\ delivered[2] = 0
    /\ trace[1] = <<Ex("RetrieveNotificationList", 1, 2, "", TRUE)>>
    /\ ret[1].err # NoError

ChipInfoQueries == <<"EID", "EUICCConfiguredAddresses", "EUICCInfo2Parsed", "GetRAT">>

\* C30: ChipInfo asks for EID, EUICCConfiguredAddresses, EUICCInfo2Parsed
\* and GetRAT in this order, each at most once; a failed EID query is the
\* only query made, and after a successful one all three others are made
\* whatever their outcomes
C30_ChipInfoQueryOrder ==
    \A p \in Procs :
        call[p].name = "ChipInfo" =>
            LET t == trace[p] IN
            /\ Len(t) <= 4
            /\ \A k \in DOMAIN t : t[k].ex = ChipInfoQueries[k]
            /\ (Len(t) >= 1 /\ ~t[1].ok) => Len(t) = 1 /\ Finished(p)
            /\ (Finished(p) /\ t[1].ok) => Len(t) = 4

\* the second and third query failed and the fourth was still made
C30_Witness ==
    /\ Finished(1) /\ call[1].name = "ChipInfo"
    /\ Len(trace[1]) = 4
    /\ ~trace[1][2].ok /\ ~trace[1][3].ok /\ trace[1][4].ok

====
